---- MODULE Spec2Model ----
(***************************************************************************)
(* A model of the NetworkGame component (src/components/NetworkGame.tsx):  *)
(* the SimpleNetwork class, the component's React state and refs, its      *)
(* three effects (structure change, forward on input change, simulation    *)
(* loop) and the handlers of its controls.                                 *)
(*                                                                         *)
(* React is modelled by its batching rule: a handler or a callback runs to *)
(* completion against the state of the render it closed over, its state    *)
(* updates are queued, the component re-renders, the effects whose         *)
(* dependencies changed run in declaration order (each after the cleanup   *)
(* of its previous run), and the updates they queue cause the next render, *)
(* until nothing changes.  A timer or a frame callback is dispatched only  *)
(* between two such steps.  Refs (networkRef, epochRef) and the timer and  *)
(* frame handles are written at once.                                      *)
(*                                                                         *)
(* Numbers are abstracted as follows.  An input or target entry is in      *)
(* tenths (the slider step); the learning rate is in hundredths; simSpeed  *)
(* is in tenths of a millisecond.  A weight or a bias is the number of     *)
(* updates train has added to its random initial value; a weight delta is  *)
(* 0 as constructed and 1 once train has written it; a unit value is 0 as  *)
(* constructed and 1 once forward has computed it.  The loss that          *)
(* updateVisuals returns is "lt" when it is below CONVERGENCE and "ge"     *)
(* otherwise, chosen freely at every training tick.                        *)
(*                                                                         *)
(* Layers are numbered from 0 in the source and in activeLayer; the        *)
(* sequences of the model are indexed from 1, so layer l is element l+1.   *)
(***************************************************************************)
EXTENDS Integers, Sequences, FiniteSets, TLC

VARIABLES
    layerDims,          \* useState: sequence of [rows, cols]
    layerActivations,   \* useState: sequence of activation keys
    inputs,             \* useState: input vector
    target,             \* useState: target vector
    isPlaying,          \* useState
    epochs,             \* useState
    epochRef,           \* useRef
    learningRate,       \* useState
    simSpeed,           \* useState
    isOptimized,        \* useState
    lossHistory,        \* useState: sequence of [epoch, loss]
    direction,          \* useState: "NONE", "FORWARD", "BACKWARD", "UPDATING"
    activeLayer,        \* useState: -1 or a layer number
    networkRef,         \* useRef: the SimpleNetwork
    timer,              \* the pending setTimeout of the simulation effect
    animationFrame,     \* the pending requestAnimationFrame of the turbo loop
    calls,              \* history: the forward/train calls of the last step
    userOps,            \* history: number of steps of the user so far
    turboFrames,        \* history: frames that ran a turbo batch since epoch 0
    interrupted,        \* history: what the architecture edit of the last step met
    trace,              \* history: (phase, layer) after each stepped tick
    cameraAngle,        \* useState: [h, v], yaw and pitch in half degrees
    viewScale,          \* useState: zoom, in thousandths
    viewOffset,         \* useState: [x, y], pan in pixels
    isOrtho,            \* useState
    isDraggingCanvasRef,\* useRef
    appended,           \* history: loss entries appended since the history was empty
    cycleRun,           \* history: the activation edits made in a row on one layer
    call,               \* a call of a function of the program on given arguments
    result,             \* what that call returned
    apiKey,             \* geminiService: whether process.env.API_KEY is set
    isOpen,             \* App useState tutorOpen, the prop isOpen of GeminiTutor
    gameMode,           \* App useState tutorContext: context.gameMode
    loading,            \* GeminiTutor useState
    explanation,        \* GeminiTutor useState: the text, and where it came from
    pending,            \* the calls of getTutorExplanation awaiting the service
    issued              \* history: number of calls of getTutorExplanation so far

vars == <<layerDims, layerActivations, inputs, target, isPlaying, epochs,
          epochRef, learningRate, simSpeed, isOptimized, lossHistory,
          direction, activeLayer, networkRef, timer, animationFrame,
          calls, userOps, turboFrames, interrupted, trace, cameraAngle,
          viewScale, viewOffset, isOrtho, isDraggingCanvasRef, appended,
          cycleRun, call, result, apiKey, isOpen, gameMode, loading,
          explanation, pending, issued>>

(* The camera, the histories of the long runs and the single calls *)
cameraVars == <<cameraAngle, viewScale, viewOffset, isOrtho, isDraggingCanvasRef>>
callVars == <<call, result>>
tutorVars == <<apiKey, isOpen, gameMode, loading, explanation, pending, issued>>

-----------------------------------------------------------------------------
(* Bounds of the exploration *)

MaxHist == 2
MaxOps == 3
MaxEdits == 7
MaxCallLayers == 3
MaxAppends == 202
MaxSceneLayers == 5
MaxCycleOps == 7
MaxCameraOps == 4
MaxTutorOps == 4

(* Program constants *)

BatchSize == 10
HistoryCap == 200
SteppedKeep == 199
MinExtent == 1
MaxExtent == 8
MinLayers == 2
MaxLayers == 10
TurboBelow == 10
DefaultSpeed == 2000
DefaultRate == 10
AddedExtent == 2
DefaultScale == 1000
layerSpacing == 250
rowSpacing == 80
colSpacing == 80
fov == 1000
OriginX == 400
OriginY == 300
ControlLift == 10
MaxPitch == 180
MinScale == 50
MaxScale == 5000

ACTIVATION_KEYS == <<"SIGMOID", "TANH", "RELU", "LEAKY_RELU", "ELU">>

(* The values the controls are driven to *)
SliderValues == {0, 10}
SimSpeeds == {1, DefaultSpeed}
LearningRates == {DefaultRate, 50}
LossValues == {"lt", "ge"}

-----------------------------------------------------------------------------
(* SimpleNetwork *)

Fill(n, v) == [i \in 1..n |-> v]

NewNetwork(layerSizes, activations) ==
    [layerSizes |-> layerSizes,
     activations |-> activations,
     weights |-> [i \in 1..(Len(layerSizes) - 1) |->
                     [j \in 1..layerSizes[i] |-> Fill(layerSizes[i + 1], 0)]],
     weightDeltas |-> [i \in 1..(Len(layerSizes) - 1) |->
                     [j \in 1..layerSizes[i] |-> Fill(layerSizes[i + 1], 0)]],
     biases |-> [i \in 1..(Len(layerSizes) - 1) |-> Fill(layerSizes[i + 1], 0)],
     values |-> [i \in 1..Len(layerSizes) |-> Fill(layerSizes[i], 0)]]

(* new SimpleNetwork(layerSizes, activations): new Array(n) throws a        *)
(* RangeError for a negative n; nothing else is checked.                   *)
Construct(layerSizes, activations) ==
    IF \E i \in 1..Len(layerSizes) : layerSizes[i] < 0
    THEN [error |-> "RangeError"]
    ELSE [error |-> "none", net |-> NewNetwork(layerSizes, activations)]

(* Variant: the layer index is used as the index of the bias vector *)
setLayerBiasUnshifted(net, layerIdx, value) ==
    LET biasIdx == layerIdx
    IN IF biasIdx >= 0 /\ biasIdx < Len(net.biases)
       THEN [net EXCEPT !.biases[biasIdx + 1] = Fill(Len(@), value)]
       ELSE net

(* biases[biasIdx] of the code is biases[biasIdx + 1] here *)
setLayerBias(net, layerIdx, value) ==
    LET biasIdx == layerIdx - 1
    IN IF biasIdx >= 0 /\ biasIdx < Len(net.biases)
       THEN [net EXCEPT !.biases[biasIdx + 1] = Fill(Len(@), value)]
       ELSE net

Forward(net, in) ==
    [net EXCEPT !.values =
        [i \in 1..Len(net.layerSizes) |->
            IF i = 1 THEN in ELSE Fill(net.layerSizes[i], 1)]]

Train(net, in, tg, lr) ==
    LET f == Forward(net, in)
    IN [f EXCEPT
          !.weights = [i \in 1..Len(f.weights) |->
                         [k \in 1..f.layerSizes[i] |->
                            [j \in 1..f.layerSizes[i + 1] |-> f.weights[i][k][j] + 1]]],
          !.weightDeltas = [i \in 1..Len(f.weights) |->
                         [k \in 1..f.layerSizes[i] |->
                            [j \in 1..f.layerSizes[i + 1] |-> 1]]],
          !.biases = [i \in 1..Len(f.weights) |->
                         [j \in 1..f.layerSizes[i + 1] |-> f.biases[i][j] + 1]]]

-----------------------------------------------------------------------------
(* The component: state of one render, refs, pending callbacks *)

NoTimer == [pending |-> FALSE, direction |-> "NONE", activeLayer |-> -1,
            inputs |-> <<>>, target |-> <<>>, learningRate |-> 0, nLayers |-> 0]

NoFrame == [pending |-> FALSE, inputs |-> <<>>, target |-> <<>>,
            learningRate |-> 0, isPlaying |-> FALSE]

State ==
    [layerDims |-> layerDims, layerActivations |-> layerActivations,
     inputs |-> inputs, target |-> target, isPlaying |-> isPlaying,
     epochs |-> epochs, learningRate |-> learningRate, simSpeed |-> simSpeed,
     isOptimized |-> isOptimized, lossHistory |-> lossHistory,
     direction |-> direction, activeLayer |-> activeLayer]

(* st: the state the running code closed over; q: the state with the       *)
(* updates queued so far applied; the rest is written at once.             *)
World ==
    [st |-> State, q |-> State, epochRef |-> epochRef, net |-> networkRef,
     timer |-> timer, raf |-> animationFrame, calls |-> <<>>]

(* Variant: a layer's size taken as rows + cols *)
LayerSizesSum(dims) == [i \in 1..Len(dims) |-> dims[i].rows + dims[i].cols]

LayerSizes(dims) == [i \in 1..Len(dims) |-> dims[i].rows * dims[i].cols]

(* A call of forward or train on the current network is also recorded in   *)
(* calls: who made it, with which vectors, on a network of which sizes,    *)
(* and how many times in a row.                                            *)
CallForward(w, in, by) ==
    [w EXCEPT !.net = Forward(w.net, in),
              !.calls = Append(@, [op |-> "forward", by |-> by, inputs |-> in,
                                   target |-> <<>>, layerSizes |-> w.net.layerSizes,
                                   times |-> 1])]

RECURSIVE TrainedTimes(_, _, _, _, _)
TrainedTimes(net, n, in, tg, lr) ==
    IF n = 0 THEN net ELSE TrainedTimes(Train(net, in, tg, lr), n - 1, in, tg, lr)

CallTrain(w, n, in, tg, lr, by) ==
    [w EXCEPT !.net = TrainedTimes(w.net, n, in, tg, lr),
              !.calls = Append(@, [op |-> "train", by |-> by, inputs |-> in,
                                   target |-> tg, layerSizes |-> w.net.layerSizes,
                                   times |-> n])]

(* h.slice(-n): the last n entries of h *)
SliceLast(h, n) == IF Len(h) > n THEN SubSeq(h, Len(h) - n + 1, Len(h)) ELSE h

(* Variant: the turbo loop appends without trimming *)
TurboAppendUncapped(h, e) == Append(h, e)

TurboAppend(h, e) ==
    LET x == Append(h, e) IN IF Len(x) > HistoryCap THEN SliceLast(x, HistoryCap) ELSE x

(* Variant: the stepped tick trims the history and appends nothing *)
SteppedAppendDrops(h, e) == SliceLast(h, SteppedKeep)

SteppedAppend(h, e) == Append(SliceLast(h, SteppedKeep), e)

(* Variant: the vectors are kept whatever the layer's size *)
NotResized(vec, size) == vec

(* A vector whose length is not the layer's size is replaced by zeros *)
Resized(vec, size) == IF Len(vec) # size THEN Fill(size, 0) ELSE vec

(* Variant: the structure effect leaves the phase and the active layer *)
InitEffectKeepsPhase(w) ==
    LET s == w.st
        layerSizes == LayerSizes(s.layerDims)
        net == NewNetwork(layerSizes, s.layerActivations)
        inputSize == layerSizes[1]
        outputSize == layerSizes[Len(layerSizes)]
    IN [w EXCEPT
          !.net = net,
          !.epochRef = 0,
          !.q = [@ EXCEPT
                   !.inputs = Resized(s.inputs, inputSize),
                   !.target = Resized(s.target, outputSize),
                   !.epochs = 0,
                   !.lossHistory = <<>>,
                   !.isPlaying = FALSE,
                   !.isOptimized = FALSE]]

(* Initialize Network (Structure Change) *)
InitEffect(w) ==
    LET s == w.st
        layerSizes == LayerSizes(s.layerDims)
        net == NewNetwork(layerSizes, s.layerActivations)
        inputSize == layerSizes[1]
        outputSize == layerSizes[Len(layerSizes)]
    IN [w EXCEPT
          !.net = net,
          !.epochRef = 0,
          !.q = [@ EXCEPT
                   !.inputs = Resized(s.inputs, inputSize),
                   !.target = Resized(s.target, outputSize),
                   !.epochs = 0,
                   !.lossHistory = <<>>,
                   !.isPlaying = FALSE,
                   !.isOptimized = FALSE,
                   !.direction = "NONE",
                   !.activeLayer = -1]]

(* Trigger Forward on Input Change *)
ForwardEffect(w) ==
    LET f == CallForward(w, w.st.inputs, "effect")
    IN [f EXCEPT !.q.isOptimized = FALSE]

(* Variant: no loss counts as converged *)
NeverConverged(loss) == FALSE

(* loss < CONVERGENCE *)
Converged(loss) == loss = "lt"

(* Variant: the loop never requests the next frame *)
RescheduleNever(u, cl) == [u EXCEPT !.raf = NoFrame]

(* if (isPlaying) animationFrame = requestAnimationFrame(loop) *)
Reschedule(u, cl) ==
    IF cl.isPlaying
    THEN [u EXCEPT !.raf = [pending |-> TRUE, inputs |-> cl.inputs,
                            target |-> cl.target,
                            learningRate |-> cl.learningRate,
                            isPlaying |-> cl.isPlaying]]
    ELSE [u EXCEPT !.raf = NoFrame]

(* The turbo loop, run with the values cl its effect closed over *)
Loop(w, cl, loss, by) ==
    LET t == CallTrain(w, BatchSize, cl.inputs, cl.target, cl.learningRate, by)
        e == t.epochRef + BatchSize
        u == [t EXCEPT !.epochRef = e,
                       !.q.epochs = e,
                       !.q.lossHistory = TurboAppend(@, [epoch |-> e, loss |-> loss])]
    IN IF Converged(loss)
       THEN [u EXCEPT !.q.isPlaying = FALSE, !.q.isOptimized = TRUE, !.raf = NoFrame]
       ELSE Reschedule(u, cl)

(* Variant: the cycle restarts at layer 1 *)
RestartAtLayerOne(w) == [w EXCEPT !.q.direction = "FORWARD", !.q.activeLayer = 1]

(* The UPDATING branch of the stepped timer: the cycle restarts *)
Restart(w) == [w EXCEPT !.q.direction = "FORWARD", !.q.activeLayer = 0]

(* The callback of the stepped timer, run with the values cl it closed over *)
Tick(w, cl, loss) ==
    IF cl.direction \in {"NONE", "FORWARD"}
    THEN LET next == cl.activeLayer + 1
             f == IF cl.activeLayer = -1 THEN CallForward(w, cl.inputs, "timer") ELSE w
         IN IF next < cl.nLayers
            THEN [f EXCEPT !.q.direction = "FORWARD", !.q.activeLayer = next]
            ELSE [f EXCEPT !.q.direction = "BACKWARD", !.q.activeLayer = cl.nLayers - 1]
    ELSE IF cl.direction = "BACKWARD"
    THEN LET prev == cl.activeLayer - 1
         IN IF prev >= 0
            THEN [w EXCEPT !.q.activeLayer = prev]
            ELSE LET t == CallTrain(w, 1, cl.inputs, cl.target, cl.learningRate, "timer")
                     e == t.epochRef + 1
                     u == [t EXCEPT !.epochRef = e,
                                    !.q.epochs = e,
                                    !.q.lossHistory =
                                        SteppedAppend(@, [epoch |-> e, loss |-> loss])]
                 IN IF Converged(loss)
                    THEN [u EXCEPT !.q.isPlaying = FALSE, !.q.isOptimized = TRUE,
                                   !.q.direction = "NONE", !.q.activeLayer = -1]
                    ELSE [u EXCEPT !.q.direction = "UPDATING", !.q.activeLayer = -1]
    ELSE Restart(w)

(* Variants: the cleanup leaves the timer, or the frame callback, pending *)
CleanupKeepsTimer(w) == [w EXCEPT !.raf = NoFrame]
CleanupKeepsFrame(w) == [w EXCEPT !.timer = NoTimer]

(* The cleanup the simulation effect returns *)
Cleanup(w) == [w EXCEPT !.raf = NoFrame, !.timer = NoTimer]

(* Simulation Loop *)
SimulationEffect(w, loss) ==
    LET s == w.st
        c == Cleanup(w)
    IN IF s.isPlaying
       THEN IF s.simSpeed < TurboBelow
            THEN Loop(c, [inputs |-> s.inputs, target |-> s.target,
                          learningRate |-> s.learningRate,
                          isPlaying |-> s.isPlaying], loss, "effect")
            ELSE [c EXCEPT !.timer =
                     [pending |-> TRUE, direction |-> s.direction,
                      activeLayer |-> s.activeLayer, inputs |-> s.inputs,
                      target |-> s.target, learningRate |-> s.learningRate,
                      nLayers |-> Len(s.layerDims)]]
       ELSE c

(* Variant: the structure effect depends on the number of layers only *)
InitDepsLayerCount(s) == Len(s.layerDims)

InitDeps(s) == s.layerDims
ForwardDeps(s) == <<s.inputs, s.target, s.layerActivations>>
SimulationDeps(s) ==
    <<s.isPlaying, s.simSpeed, s.direction, s.activeLayer, s.inputs, s.target,
      s.learningRate>>

(* One render with state w.st after a render with state prev: the effects  *)
(* whose dependencies changed run in order; the updates they queue cause   *)
(* the next render.                                                        *)
RECURSIVE Render(_, _, _)
Render(prev, w, loss) ==
    LET s == w.st
        w1 == IF InitDeps(s) # InitDeps(prev) THEN InitEffect(w) ELSE w
        w2 == IF ForwardDeps(s) # ForwardDeps(prev) THEN ForwardEffect(w1) ELSE w1
        w3 == IF SimulationDeps(s) # SimulationDeps(prev)
              THEN SimulationEffect(w2, loss) ELSE w2
    IN IF w3.q = s THEN w3 ELSE Render(s, [w3 EXCEPT !.st = w3.q], loss)

(* The updates a handler or callback queued are committed *)
Commit(w, loss) == Render(w.st, [w EXCEPT !.st = w.q], loss)

-----------------------------------------------------------------------------
(* History variables *)

RECURSIVE NTrain(_)
NTrain(cs) ==
    IF cs = <<>> THEN 0
    ELSE (IF Head(cs).op = "train" THEN Head(cs).times ELSE 0) + NTrain(Tail(cs))

(* The phases and layers a stepped run on an n-layer network goes through  *)
(* from (NONE, -1): one full cycle and the first tick of the next.         *)
ExpectedCycle(n) ==
    [i \in 1..(2 * n + 2) |->
        IF i <= n THEN <<"FORWARD", i - 1>>
        ELSE IF i <= 2 * n THEN <<"BACKWARD", 2 * n - i>>
        ELSE IF i = 2 * n + 1 THEN <<"UPDATING", -1>>
        ELSE <<"FORWARD", 0>>]

NextTrace(w, kind) ==
    LET s == w.st
        n == Len(s.layerDims)
        base == IF Len(trace) = 2 * n + 2 THEN <<trace[Len(trace)]>> ELSE trace
    IN IF s.direction = "NONE" \/ s.layerDims # layerDims THEN <<>>
       ELSE IF kind = "timer" THEN Append(base, <<s.direction, s.activeLayer>>)
       ELSE trace

NextTurboFrames(w, kind) ==
    IF w.epochRef = 0 THEN 0
    ELSE IF NTrain(w.calls) = 0 THEN turboFrames
    ELSE IF kind = "timer" \/ turboFrames < 0 THEN -1
    ELSE IF kind \in {"frame", "play", "speed"} THEN turboFrames + 1
    ELSE turboFrames

(* "none" unless the step changed the layer grid; otherwise the scheduler  *)
(* the edit met: "idle" when paused, "live" when playing before the first  *)
(* training step, "trained" when playing after it.                         *)
NextInterrupted(w) ==
    IF w.st.layerDims = layerDims THEN "none"
    ELSE IF ~isPlaying THEN "idle"
    ELSE IF epochs = 0 THEN "live"
    ELSE "trained"

(* A step of the user counts; a timer or frame callback does not *)
UserOp(kind) == IF kind \in {"timer", "frame"} THEN 0 ELSE 1

(* The step ends in world w: its state is what the next step starts from *)
ComponentStep(w, kind) ==
    /\ layerDims' = w.st.layerDims
    /\ layerActivations' = w.st.layerActivations
    /\ inputs' = w.st.inputs
    /\ target' = w.st.target
    /\ isPlaying' = w.st.isPlaying
    /\ epochs' = w.st.epochs
    /\ learningRate' = w.st.learningRate
    /\ simSpeed' = w.st.simSpeed
    /\ isOptimized' = w.st.isOptimized
    /\ lossHistory' = w.st.lossHistory
    /\ direction' = w.st.direction
    /\ activeLayer' = w.st.activeLayer
    /\ epochRef' = w.epochRef
    /\ networkRef' = w.net
    /\ timer' = w.timer
    /\ animationFrame' = w.raf
    /\ calls' = w.calls
    /\ userOps' = userOps + UserOp(kind)
    /\ turboFrames' = NextTurboFrames(w, kind)
    /\ interrupted' = NextInterrupted(w)
    /\ trace' = NextTrace(w, kind)
    /\ UNCHANGED cameraVars
    /\ UNCHANGED tutorVars
    /\ UNCHANGED callVars

(* A step of the exploration of the whole component, within its bounds *)
Done(w, kind) ==
    /\ Len(w.st.lossHistory) <= MaxHist
    /\ userOps + UserOp(kind) <= MaxOps
    /\ ComponentStep(w, kind)
    /\ UNCHANGED <<appended, cycleRun>>

-----------------------------------------------------------------------------
(* Handlers *)

(* Variant: the extent is not clamped *)
NoClamp(lo, hi, x) == x

Clamp(lo, hi, x) == IF x < lo THEN lo ELSE IF x > hi THEN hi ELSE x

(* Remove element i of sequence q: splice(i, 1) *)
Splice(q, i) == [k \in 1..(Len(q) - 1) |-> IF k < i THEN q[k] ELSE q[k + 1]]

ModifiedDims(dims, lIdx, dKey, delta) ==
    [dims EXCEPT ![lIdx] =
        IF dKey = "rows"
        THEN [@ EXCEPT !.rows = Clamp(MinExtent, MaxExtent, @ + delta)]
        ELSE [@ EXCEPT !.cols = Clamp(MinExtent, MaxExtent, @ + delta)]]

modifyLayerHandler(w, lIdx, dKey, delta) ==
    [w EXCEPT !.q.layerDims = ModifiedDims(@, lIdx, dKey, delta),
              !.q.isOptimized = FALSE]

addLayerHandler(w) ==
    LET d == w.st.layerDims
        a == w.st.layerActivations
    IN IF Len(d) < MaxLayers
       THEN [w EXCEPT
               !.q.layerDims = SubSeq(d, 1, Len(d) - 1)
                                 \o <<[rows |-> AddedExtent, cols |-> AddedExtent]>>
                                 \o <<d[Len(d)]>>,
               !.q.layerActivations = SubSeq(a, 1, Len(a) - 1)
                                 \o <<"LEAKY_RELU">> \o <<a[Len(a)]>>,
               !.q.isOptimized = FALSE]
       ELSE w

removeLayerHandler(w) ==
    LET d == w.st.layerDims
        a == w.st.layerActivations
    IN IF Len(d) > MinLayers
       THEN [w EXCEPT !.q.layerDims = Splice(d, Len(d) - 1),
                      !.q.layerActivations = Splice(a, Len(a) - 1),
                      !.q.isOptimized = FALSE]
       ELSE w

IndexOf(q, x) == CHOOSE i \in 1..Len(q) : q[i] = x

(* Variant: the index is not wrapped, the last key stays *)
cycleActivationNoWrap(w, lIdx) ==
    LET a == w.st.layerActivations
        currentIndex == IndexOf(ACTIVATION_KEYS, a[lIdx])
        nextIndex == IF currentIndex = Len(ACTIVATION_KEYS) THEN currentIndex
                     ELSE currentIndex + 1
    IN [w EXCEPT !.q.layerActivations = [a EXCEPT ![lIdx] = ACTIVATION_KEYS[nextIndex]],
                 !.q.isOptimized = FALSE]

cycleActivationHandler(w, lIdx) ==
    LET a == w.st.layerActivations
        nextIndex == (IndexOf(ACTIVATION_KEYS, a[lIdx]) % Len(ACTIVATION_KEYS)) + 1
    IN [w EXCEPT !.q.layerActivations = [a EXCEPT ![lIdx] = ACTIVATION_KEYS[nextIndex]],
                 !.q.isOptimized = FALSE]

resetSimulationKeepsHistory(w) ==
    LET s == w.st
        net == NewNetwork(LayerSizes(s.layerDims), s.layerActivations)
        r == [w EXCEPT !.net = net,
                       !.epochRef = 0,
                       !.q.epochs = 0,
                       !.q.isPlaying = FALSE,
                       !.q.isOptimized = FALSE,
                       !.q.direction = "NONE",
                       !.q.activeLayer = -1]
    IN CallForward(r, s.inputs, "handler")

resetSimulationHandler(w) ==
    LET s == w.st
        net == NewNetwork(LayerSizes(s.layerDims), s.layerActivations)
        r == [w EXCEPT !.net = net,
                       !.epochRef = 0,
                       !.q.epochs = 0,
                       !.q.lossHistory = <<>>,
                       !.q.isPlaying = FALSE,
                       !.q.isOptimized = FALSE,
                       !.q.direction = "NONE",
                       !.q.activeLayer = -1]
    IN CallForward(r, s.inputs, "handler")

playHandler(w) == [w EXCEPT !.q.isPlaying = ~w.st.isPlaying]

-----------------------------------------------------------------------------
(* Steps *)

(* The worlds a step can end in when its handler or callback leaves world  *)
(* h: the loss is chosen only where a training step computes one.          *)
Outcomes(h) ==
    LET g == Commit(h, "ge")
    IN IF NTrain(g.calls) = 0 THEN {g} ELSE {g, Commit(h, "lt")}

(* The layers whose extents the steps edit: the input layer and the output *)
(* layer, whose sizes the input and target vectors follow.  The hidden     *)
(* layers change through addLayer and removeLayer.                         *)
EditedLayers(dims) == {1, Len(dims)}

TogglePlay ==
    \E w \in Outcomes(playHandler(World)) : Done(w, "play")

ResetSimulation ==
    \E w \in Outcomes(resetSimulationHandler(World)) : Done(w, "reset")

ContinueTraining ==
    /\ isOptimized
    /\ \E w \in Outcomes([World EXCEPT !.q.isOptimized = FALSE]) : Done(w, "continue")

SetSimSpeed ==
    \E v \in SimSpeeds \ {simSpeed} :
        \E w \in Outcomes([World EXCEPT !.q.simSpeed = v]) : Done(w, "speed")

SetLearningRate ==
    \E v \in LearningRates \ {learningRate} :
        \E w \in Outcomes([World EXCEPT !.q.learningRate = v]) : Done(w, "rate")

SetInput ==
    \E i \in DOMAIN inputs, v \in SliderValues :
        /\ i <= LayerSizes(layerDims)[1]
        /\ v # inputs[i]
        /\ \E w \in Outcomes([World EXCEPT !.q.inputs = [inputs EXCEPT ![i] = v]]) :
              Done(w, "input")

SetTarget ==
    \E i \in DOMAIN target, v \in SliderValues :
        /\ i <= LayerSizes(layerDims)[Len(layerDims)]
        /\ v # target[i]
        /\ \E w \in Outcomes([World EXCEPT !.q.target = [target EXCEPT ![i] = v]]) :
              Done(w, "target")

ModifyLayer ==
    \E lIdx \in EditedLayers(layerDims), dKey \in {"rows", "cols"}, delta \in {-1, 1} :
        \E w \in Outcomes(modifyLayerHandler(World, lIdx, dKey, delta)) :
            Done(w, "modify")

AddLayer ==
    \E w \in Outcomes(addLayerHandler(World)) : Done(w, "add")

RemoveLayer ==
    \E w \in Outcomes(removeLayerHandler(World)) : Done(w, "remove")

CycleActivation ==
    \E lIdx \in 2..(Len(layerDims) - 1) :
        \E w \in Outcomes(cycleActivationHandler(World, lIdx)) : Done(w, "activation")

(* The stepped timer fires *)
TimerFire ==
    /\ timer.pending
    /\ \E loss \in LossValues :
          \E w \in {Commit(Tick([World EXCEPT !.timer = NoTimer], timer, loss), loss)} :
              Done(w, "timer")

(* The frame callback of the turbo loop fires *)
FrameFire ==
    /\ animationFrame.pending
    /\ \E loss \in LossValues :
          \E w \in {Commit(Loop([World EXCEPT !.raf = NoFrame], animationFrame, loss,
                                "frame"), loss)} :
              Done(w, "frame")

DefaultAngle == [h |-> 50, v |-> 30]
InitialExplanation ==
    [text |-> "Initialize the system to receive guidance.", req |-> 0,
     outcome |-> "none"]
NoRun == [layer |-> 0, n |-> 0, start |-> <<>>]
NoCall == [op |-> "none"]

InitialDims == <<[rows |-> 2, cols |-> 1], [rows |-> 2, cols |-> 2],
                 [rows |-> 3, cols |-> 1], [rows |-> 1, cols |-> 1]>>
InitialActivations == <<"LEAKY_RELU", "LEAKY_RELU", "LEAKY_RELU", "SIGMOID">>

(* The component after mount *)
Mounted ==
    /\ layerDims = InitialDims
    /\ layerActivations = InitialActivations
    /\ inputs = <<0, 10>>
    /\ target = <<10>>
    /\ isPlaying = FALSE
    /\ epochs = 0
    /\ epochRef = 0
    /\ learningRate = DefaultRate
    /\ simSpeed = DefaultSpeed
    /\ isOptimized = FALSE
    /\ lossHistory = <<>>
    /\ direction = "NONE"
    /\ activeLayer = -1
    /\ networkRef = Forward(NewNetwork(LayerSizes(InitialDims), InitialActivations),
                            <<0, 10>>)
    /\ timer = NoTimer
    /\ animationFrame = NoFrame
    /\ calls = <<>>
    /\ userOps = 0
    /\ turboFrames = 0
    /\ interrupted = "none"
    /\ trace = <<>>
    /\ cameraAngle = DefaultAngle
    /\ viewScale = DefaultScale
    /\ viewOffset = [x |-> 0, y |-> 0]
    /\ isOrtho = FALSE
    /\ isDraggingCanvasRef = FALSE
    /\ appended = 0
    /\ cycleRun = NoRun
    /\ isOpen = FALSE
    /\ gameMode = "MENU"
    /\ loading = FALSE
    /\ explanation = InitialExplanation
    /\ pending = {}
    /\ issued = 0

Init ==
    /\ Mounted
    /\ call = NoCall
    /\ result = NoCall
    /\ apiKey = TRUE

Next ==
    \/ TogglePlay
    \/ ResetSimulation
    \/ ContinueTraining
    \/ SetSimSpeed
    \/ SetLearningRate
    \/ SetInput
    \/ SetTarget
    \/ ModifyLayer
    \/ AddLayer
    \/ RemoveLayer
    \/ CycleActivation
    \/ TimerFire
    \/ FrameFire

Spec == Init /\ [][Next]_vars

-----------------------------------------------------------------------------
(* Architecture edits alone, in longer sequences *)

EditDone(w, kind) ==
    /\ userOps + UserOp(kind) <= MaxEdits
    /\ ComponentStep(w, kind)
    /\ UNCHANGED <<appended, cycleRun>>

EditModifyLayer ==
    \E lIdx \in EditedLayers(layerDims), dKey \in {"rows", "cols"}, delta \in {-1, 1} :
        \E w \in Outcomes(modifyLayerHandler(World, lIdx, dKey, delta)) :
            EditDone(w, "modify")

EditAddLayer ==
    \E w \in Outcomes(addLayerHandler(World)) : EditDone(w, "add")

EditRemoveLayer ==
    \E w \in Outcomes(removeLayerHandler(World)) : EditDone(w, "remove")

NextEdit ==
    \/ EditModifyLayer
    \/ EditAddLayer
    \/ EditRemoveLayer

SpecEdit == Init /\ [][NextEdit]_vars

-----------------------------------------------------------------------------
(* Properties *)

IsPrefix(p, q) == Len(p) <= Len(q) /\ \A i \in 1..Len(p) : p[i] = q[i]

Last(q) == q[Len(q)]

(* The step is the stepped timer's callback / the turbo loop's frame        *)
(* callback: something was pending and no step of the user was counted.     *)
TickStep == timer.pending /\ ~animationFrame.pending /\ userOps' = userOps
FrameStep == animationFrame.pending /\ ~timer.pending /\ userOps' = userOps

(* At most one of the two callbacks is pending *)
OneCallback == ~(timer.pending /\ animationFrame.pending)

(* The closure of the pending timer holds the state of the current render *)
TimerIsCurrent ==
    timer.pending =>
        /\ timer.direction = direction
        /\ timer.activeLayer = activeLayer
        /\ timer.inputs = inputs
        /\ timer.target = target
        /\ timer.learningRate = learningRate
        /\ timer.nLayers = Len(layerDims)

TimerTrained == \E i \in DOMAIN calls : calls[i].op = "train" /\ calls[i].by = "timer"

NoPending == ~timer.pending /\ ~animationFrame.pending

(* rows * cols of every layer of the grid *)
GridSizes(dims) == [i \in 1..Len(dims) |-> dims[i].rows * dims[i].cols]

(* No train call has touched the network since it was constructed *)
Untrained(net) ==
    /\ \A i \in DOMAIN net.weights : \A k \in DOMAIN net.weights[i] :
          \A j \in DOMAIN net.weights[i][k] :
              net.weights[i][k][j] = 0 /\ net.weightDeltas[i][k][j] = 0
    /\ \A i \in DOMAIN net.biases : \A j \in DOMAIN net.biases[i] : net.biases[i][j] = 0

Zeros(n) == [i \in 1..n |-> 0]

(* C1: in stepped mode the (phase, active layer) values after the ticks    *)
(* taken since the phase left NONE are FORWARD at 0..L-1, BACKWARD at      *)
(* L-1..0, UPDATING once, FORWARD at 0 again; between ticks the phase and  *)
(* the layer stay at the value of the last tick.                           *)
C1_SteppedCycle ==
    /\ IsPrefix(trace, ExpectedCycle(Len(layerDims)))
    /\ (trace = <<>>) <=> (direction = "NONE")
    /\ direction = "NONE" => activeLayer = -1
    /\ trace # <<>> => Last(trace) = <<direction, activeLayer>>

C1_CycleRestarted ==
    /\ Len(trace) = 2 * Len(layerDims) + 2
    /\ direction = "FORWARD"
    /\ activeLayer = 0

(* C2: a stepped tick trains exactly when it is taken in BACKWARD with the *)
(* pointer at 0 (decrementing would make it negative): then there is one   *)
(* train call, the epoch counter grows by 1 and one loss entry is          *)
(* appended; any other stepped tick leaves weights, biases, the epoch      *)
(* counter and the loss history alone.                                     *)
C2_TrainOnlyAtBackwardEnd ==
    [][TickStep =>
         IF direction = "BACKWARD" /\ activeLayer - 1 < 0
         THEN /\ NTrain(calls') = 1
              /\ epochs' = epochs + 1
              /\ epochRef' = epochRef + 1
              /\ Len(lossHistory') = Len(lossHistory) + 1
              /\ SubSeq(lossHistory', 1, Len(lossHistory)) = lossHistory
              /\ Last(lossHistory').epoch = epochs'
              /\ networkRef'.weights # networkRef.weights
              /\ networkRef'.biases # networkRef.biases
         ELSE /\ NTrain(calls') = 0
              /\ epochs' = epochs
              /\ epochRef' = epochRef
              /\ lossHistory' = lossHistory
              /\ networkRef'.weights = networkRef.weights
              /\ networkRef'.biases = networkRef.biases]_vars

C2_SteppedTrainDone ==
    /\ TimerTrained
    /\ direction = "UPDATING"
    /\ epochs = 1
    /\ Len(lossHistory) = 1

(* C3: after a stepped training step whose loss is below the threshold the *)
(* scheduler is not playing, the optimized flag is set and no callback is  *)
(* pending; after one whose loss is not below it the phase is UPDATING,    *)
(* the scheduler is playing and the next tick is pending.                  *)
C3_ConvergenceHalts ==
    [][TickStep /\ NTrain(calls') > 0 =>
         IF Last(lossHistory').loss = "lt"
         THEN /\ ~isPlaying'
              /\ isOptimized'
              /\ ~timer'.pending
              /\ ~animationFrame'.pending
         ELSE /\ isPlaying'
              /\ direction' = "UPDATING"
              /\ timer'.pending]_vars

C3_HaltedOnConvergence ==
    /\ TimerTrained
    /\ Last(lossHistory).loss = "lt"
    /\ ~isPlaying
    /\ isOptimized

(* C4: in a turbo run from epoch 0 with no convergence, the epoch counter  *)
(* is 10 times the number of frames that ran a batch (the frame of the     *)
(* step that started turbo included), also when the learning rate, the     *)
(* inputs or the targets change while turbo runs.                          *)
C4_TurboEpochsPerFrame ==
    (turboFrames >= 0 /\ \A i \in DOMAIN lossHistory : lossHistory[i].loss # "lt")
        => epochs = BatchSize * turboFrames

(* C5: a turbo batch leaves the phase and the active layer alone; when its *)
(* loss is not below the threshold the next frame callback is pending and  *)
(* the scheduler is playing; when its loss is below the threshold no       *)
(* callback is pending, the scheduler is not playing and the optimized     *)
(* flag is set.                                                            *)
C5_TurboReschedules ==
    [][(FrameStep \/ NTrain(calls') >= BatchSize) =>
         /\ NTrain(calls') = BatchSize
         /\ direction' = direction
         /\ activeLayer' = activeLayer
         /\ IF Last(lossHistory').loss = "lt"
            THEN ~animationFrame'.pending /\ ~timer'.pending /\ ~isPlaying' /\ isOptimized'
            ELSE animationFrame'.pending /\ isPlaying']_vars

C5_FrameRescheduled ==
    /\ animationFrame.pending
    /\ isPlaying
    /\ epochs = 2 * BatchSize
    /\ \E i \in DOMAIN calls : calls[i].op = "train" /\ calls[i].by = "frame"

(* C6: once the scheduler is not playing no timer and no frame callback is *)
(* pending; from a state where it is not playing every step is a step of   *)
(* the user, and only pressing play runs train.                            *)
C6_PauseCancels ==
    [][/\ ~isPlaying' => (~timer'.pending /\ ~animationFrame'.pending)
       /\ ~isPlaying => userOps' = userOps + 1
       /\ (~isPlaying /\ NTrain(calls') > 0) => TogglePlay]_vars

C6_PausedMidCycle ==
    /\ ~isPlaying
    /\ direction = "BACKWARD"
    /\ epochs = 0
    /\ NoPending

C9_ShapesMatch ==
    LET net == networkRef
        sizes == net.layerSizes
    IN /\ Len(sizes) = Len(layerDims)
       /\ \A i \in 1..Len(layerDims) : sizes[i] = layerDims[i].rows * layerDims[i].cols
       /\ DOMAIN net.weights = 1..(Len(sizes) - 1)
       /\ DOMAIN net.weightDeltas = 1..(Len(sizes) - 1)
       /\ DOMAIN net.biases = 1..(Len(sizes) - 1)
       /\ \A i \in 1..(Len(sizes) - 1) :
             /\ DOMAIN net.weights[i] = 1..sizes[i]
             /\ DOMAIN net.weightDeltas[i] = 1..sizes[i]
             /\ \A k \in 1..sizes[i] :
                   /\ DOMAIN net.weights[i][k] = 1..sizes[i + 1]
                   /\ DOMAIN net.weightDeltas[i][k] = 1..sizes[i + 1]
             /\ DOMAIN net.biases[i] = 1..sizes[i + 1]

C9_TrainedAfterEdit ==
    /\ layerDims # InitialDims
    /\ Len(layerDims) # Len(InitialDims)
    /\ epochs > 0

-----------------------------------------------------------------------------
(* The scene: 3D projection and render list                                *)
(*                                                                         *)
(* Angles are in half degrees.  Math.cos and Math.sin are rounded to       *)
(* tenths (TrigScale), and given for the angles of the view presets, of    *)
(* the default view and of a few orbit positions.  A rotated coordinate is *)
(* therefore an integer in hundredths of a pixel (DepthScale); the depth   *)
(* of a link, a half sum, is kept in two-hundredths (item depths are       *)
(* doubled).  A quotient is kept as an exact fraction [num, den]; a zero   *)
(* denominator stands for the Infinity that the division yields.           *)

TrigScale == 10
DepthScale == TrigScale * TrigScale

(* angle |-> <<cos, sin>> in tenths *)
Trig ==
    [a \in {-180, -106, 0, 30, 50, 74, 180, 360} |->
        CASE a = -180 -> <<0, -10>>
          [] a = -106 -> <<6, -8>>
          [] a = 0 -> <<10, 0>>
          [] a = 30 -> <<10, 3>>
          [] a = 50 -> <<9, 4>>
          [] a = 74 -> <<8, 6>>
          [] a = 180 -> <<0, 10>>
          [] a = 360 -> <<-10, 0>>]

Cos(a) == Trig[a][1]
Sin(a) == Trig[a][2]

Camera ==
    [cameraAngle |-> cameraAngle, viewScale |-> viewScale,
     viewOffset |-> viewOffset, isOrtho |-> isOrtho]

(* Variant: the layout starts at the origin instead of being centred *)
StartAtOrigin(count, spacing) == 0

(* Center the network: the coordinate of the first of count places that    *)
(* lie spacing apart                                                       *)
CentredStart(count, spacing) == -(((count - 1) * spacing) \div 2)

(* x = fixed + moved * base, in units of 1 / (DepthScale * 1000) pixel *)
project3D(dims, cam, layerIdx, row, col) ==
    LET xStart == CentredStart(Len(dims), layerSpacing)
        d == dims[layerIdx + 1]
        yStart == CentredStart(d.rows, rowSpacing)
        zStart == CentredStart(d.cols, colSpacing)
        x3d == xStart + layerIdx * layerSpacing
        y3d == yStart + row * rowSpacing
        z3d == zStart + col * colSpacing
        cosH == Cos(cam.cameraAngle.h)
        sinH == Sin(cam.cameraAngle.h)
        cosV == Cos(cam.cameraAngle.v)
        sinV == Sin(cam.cameraAngle.v)
        x1 == x3d * cosH - z3d * sinH
        y1 == y3d * TrigScale
        z1 == x3d * sinH + z3d * cosH
        x2 == x1 * TrigScale
        y2 == y1 * cosV - z1 * sinV
        z2 == y1 * sinV + z1 * cosV
        baseScale == IF cam.isOrtho THEN [num |-> 1, den |-> 1]
                     ELSE [num |-> fov * DepthScale, den |-> fov * DepthScale - z2]
        unit == DepthScale * 1000
    IN [x |-> [fixed |-> (OriginX + cam.viewOffset.x) * unit,
               moved |-> x2 * cam.viewScale, base |-> baseScale],
        y |-> [fixed |-> (OriginY + cam.viewOffset.y) * unit,
               moved |-> y2 * cam.viewScale, base |-> baseScale],
        scale |-> [num |-> baseScale.num * cam.viewScale,
                   den |-> baseScale.den * 1000],
        depth |-> z2]

(* useState displayStats before the first updateVisuals; afterwards it is  *)
(* a copy of the network's arrays                                          *)
NoStats == [values |-> <<>>, weights |-> <<>>]

RECURSIVE Flatten(_)
Flatten(qs) == IF qs = <<>> THEN <<>> ELSE Head(qs) \o Flatten(Tail(qs))

(* The (row, col) pairs of a layer in the order of the two nested loops *)
Cells(dim) ==
    [k \in 1..(dim.rows * dim.cols) |->
        [r |-> (k - 1) \div dim.cols, c |-> (k - 1) % dim.cols]]

(* The items pushed for the unit (r, c) of layer lIdx: the node, the layer *)
(* control under the bottom row, the activation control over the top row   *)
(* of a hidden layer.                                                      *)
NodeItems(dims, cam, lIdx, r, c) ==
    LET dim == dims[lIdx + 1]
        flatIdx == r * dim.cols + c
        pos == project3D(dims, cam, lIdx, r, c)
        isInput == lIdx = 0
        isOutput == lIdx = Len(dims) - 1
    IN <<[type |-> "NODE", key |-> <<lIdx, flatIdx>>, depth |-> 2 * pos.depth]>>
       \o (IF r = dim.rows - 1 /\ c = dim.cols \div 2
           THEN <<[type |-> "LAYER_CONTROL", key |-> <<lIdx>>,
                   depth |-> 2 * (pos.depth + ControlLift * DepthScale)]>>
           ELSE <<>>)
       \o (IF ~isInput /\ ~isOutput /\ r = 0 /\ c = dim.cols \div 2
           THEN <<[type |-> "ACTIVATION_CONTROL", key |-> <<lIdx>>,
                   depth |-> 2 * (pos.depth + ControlLift * DepthScale)]>>
           ELSE <<>>)

(* The links of transition lIdx of the displayed weights *)
LinkItems(dims, cam, lIdx) ==
    IF lIdx + 2 > Len(dims) THEN <<>>
    ELSE LET fromDim == dims[lIdx + 1]
             toDim == dims[lIdx + 2]
             from == Cells(fromDim)
             to == Cells(toDim)
         IN Flatten([i \in 1..Len(from) |->
                [j \in 1..Len(to) |->
                    LET fromPos == project3D(dims, cam, lIdx, from[i].r, from[i].c)
                        toPos == project3D(dims, cam, lIdx + 1, to[j].r, to[j].c)
                    IN [type |-> "LINK", key |-> <<lIdx, i - 1, j - 1>>,
                        depth |-> fromPos.depth + toPos.depth]]])

(* Array.prototype.sort with the comparator a.depth - b.depth: a stable     *)
(* sort by depth                                                           *)
(* The place of item i after the sort: behind every item of smaller depth  *)
(* and every earlier item of the same depth                                *)
PlaceByDepth(items, i) ==
    1 + Cardinality({j \in 1..Len(items) :
                        \/ items[j].depth < items[i].depth
                        \/ items[j].depth = items[i].depth /\ j < i})

SortByDepth(items) ==
    [p \in 1..Len(items) |->
        items[CHOOSE i \in 1..Len(items) : PlaceByDepth(items, i) = p]]

(* Variant: the list is returned as generated *)
Unsorted(items) == items

(* Sort Back-to-Front (Painter's Algorithm) *)
BackToFront(items) == SortByDepth(items)

renderItems(dims, cam, stats) ==
    IF Len(stats.values) = 0 THEN <<>>
    ELSE LET nodes == Flatten([l \in 1..Len(dims) |->
                          Flatten([k \in 1..Len(Cells(dims[l])) |->
                              NodeItems(dims, cam, l - 1, Cells(dims[l])[k].r,
                                        Cells(dims[l])[k].c)])])
             links == Flatten([l \in 1..Len(stats.weights) |->
                          LinkItems(dims, cam, l - 1)])
         IN BackToFront(nodes \o links)

-----------------------------------------------------------------------------
(* One uninterrupted run, stepped or turbo, long enough to fill the loss   *)
(* history: the user may choose turbo, then presses play once.             *)

RECURSIVE NAppends(_)
NAppends(cs) ==
    IF cs = <<>> THEN 0
    ELSE (IF Head(cs).op = "train" THEN 1 ELSE 0) + NAppends(Tail(cs))

NextAppended(w) ==
    IF w.st.lossHistory = <<>> THEN 0 ELSE appended + NAppends(w.calls)

RunDone(w, kind) ==
    /\ NextAppended(w) <= MaxAppends
    /\ ComponentStep(w, kind)
    /\ appended' = NextAppended(w)
    /\ UNCHANGED cycleRun

RunSetTurbo ==
    /\ ~isPlaying
    /\ epochs = 0
    /\ simSpeed = DefaultSpeed
    /\ \E w \in Outcomes([World EXCEPT !.q.simSpeed = 1]) : RunDone(w, "speed")

RunPlay ==
    /\ ~isPlaying
    /\ epochs = 0
    /\ \E w \in Outcomes(playHandler(World)) : RunDone(w, "play")

RunTimerFire ==
    /\ timer.pending
    /\ \E loss \in LossValues :
          \E w \in {Commit(Tick([World EXCEPT !.timer = NoTimer], timer, loss), loss)} :
              RunDone(w, "timer")

RunFrameFire ==
    /\ animationFrame.pending
    /\ \E loss \in LossValues :
          \E w \in {Commit(Loop([World EXCEPT !.raf = NoFrame], animationFrame, loss,
                                "frame"), loss)} :
              RunDone(w, "frame")

NextRun ==
    \/ RunSetTurbo
    \/ RunPlay
    \/ RunTimerFire
    \/ RunFrameFire

SpecRun == Init /\ [][NextRun]_vars

-----------------------------------------------------------------------------
(* Activation edits during and between stepped training: the user presses  *)
(* play or pause and clicks the activation controls of the hidden layers.  *)
(* cycleRun counts the clicks on one control since the last click on       *)
(* another one, and keeps the assignment before the first of them.         *)

NextRunOf(lIdx) ==
    IF cycleRun.layer = lIdx THEN [cycleRun EXCEPT !.n = @ + 1]
    ELSE [layer |-> lIdx, n |-> 1, start |-> layerActivations]

CycleDone(w, kind, run) ==
    /\ Len(w.st.lossHistory) <= MaxHist
    /\ userOps + UserOp(kind) <= MaxCycleOps
    /\ ComponentStep(w, kind)
    /\ cycleRun' = run
    /\ UNCHANGED appended

CyclePlay ==
    \E w \in Outcomes(playHandler(World)) : CycleDone(w, "play", cycleRun)

CycleEdit ==
    \E lIdx \in 2..(Len(layerDims) - 1) :
        \E w \in Outcomes(cycleActivationHandler(World, lIdx)) :
            CycleDone(w, "activation", NextRunOf(lIdx))

CycleTimerFire ==
    /\ timer.pending
    /\ \E loss \in LossValues :
          \E w \in {Commit(Tick([World EXCEPT !.timer = NoTimer], timer, loss), loss)} :
              CycleDone(w, "timer", cycleRun)

NextCycle ==
    \/ CyclePlay
    \/ CycleEdit
    \/ CycleTimerFire

SpecCycle == Init /\ [][NextCycle]_vars

-----------------------------------------------------------------------------
(* The camera: orbit and pan by dragging the canvas, zoom by the wheel,    *)
(* the view presets and the reset of the gizmo, the projection button.     *)
(* Angles are in half degrees, as one pixel of drag turns the camera;      *)
(* the zoom is in thousandths, as one unit of deltaY changes it.  No panel *)
(* is being dragged (draggingUIRef is null); dx and dy are the distances   *)
(* from lastMouseRef, which every move updates.                            *)

Moves == {<<40, -300>>, <<-40, 150>>, <<10, 20>>}
WheelDeltas == {-6000, 100, 6000}
Presets == {[h |-> 180, v |-> 0], [h |-> 0, v |-> 180], [h |-> 0, v |-> 0]}

Orbit(angle, dx, dy) ==
    [h |-> angle.h + dx, v |-> Clamp(-MaxPitch, MaxPitch, angle.v + dy)]

(* Variant: the zoom has no upper limit *)
handleWheelNoCeiling(s, deltaY) ==
    IF s - deltaY < MinScale THEN MinScale ELSE s - deltaY

handleWheel(s, deltaY) == Clamp(MinScale, MaxScale, s - deltaY)

CameraDone(angle, scale, offset, ortho, dragging) ==
    /\ userOps < MaxCameraOps
    /\ userOps' = userOps + 1
    /\ cameraAngle' = angle
    /\ viewScale' = scale
    /\ viewOffset' = offset
    /\ isOrtho' = ortho
    /\ isDraggingCanvasRef' = dragging
    /\ UNCHANGED <<layerDims, layerActivations, inputs, target, isPlaying, epochs,
                   epochRef, learningRate, simSpeed, isOptimized, lossHistory,
                   direction, activeLayer, networkRef, timer, animationFrame,
                   calls, turboFrames, interrupted, trace, appended, cycleRun>>
    /\ UNCHANGED callVars
    /\ UNCHANGED tutorVars

MouseDownCanvas ==
    CameraDone(cameraAngle, viewScale, viewOffset, isOrtho, TRUE)

MouseUp ==
    CameraDone(cameraAngle, viewScale, viewOffset, isOrtho, FALSE)

MouseMove ==
    /\ isDraggingCanvasRef
    /\ \E buttons \in 0..3, m \in Moves :
          IF buttons = 1
          THEN CameraDone(Orbit(cameraAngle, m[1], m[2]), viewScale, viewOffset,
                          FALSE, TRUE)
          ELSE IF buttons = 2 \/ buttons = 3
          THEN CameraDone(cameraAngle, viewScale,
                          [x |-> viewOffset.x + m[1], y |-> viewOffset.y + m[2]],
                          isOrtho, TRUE)
          ELSE CameraDone(cameraAngle, viewScale, viewOffset, isOrtho, TRUE)

Wheel ==
    \E deltaY \in WheelDeltas :
        CameraDone(cameraAngle, handleWheel(viewScale, deltaY), viewOffset, isOrtho,
                   isDraggingCanvasRef)

AxisClick ==
    \E view \in Presets :
        IF cameraAngle.h = view.h /\ cameraAngle.v = view.v
        THEN CameraDone(cameraAngle, viewScale, viewOffset, ~isOrtho,
                        isDraggingCanvasRef)
        ELSE CameraDone(view, viewScale, viewOffset, FALSE, isDraggingCanvasRef)

GizmoReset ==
    CameraDone(DefaultAngle, viewScale, viewOffset, FALSE, isDraggingCanvasRef)

ToggleOrtho ==
    CameraDone(cameraAngle, viewScale, viewOffset, ~isOrtho, isDraggingCanvasRef)

NextCamera ==
    \/ MouseDownCanvas
    \/ MouseUp
    \/ MouseMove
    \/ Wheel
    \/ AxisClick
    \/ GizmoReset
    \/ ToggleOrtho

SpecCamera == Init /\ [][NextCamera]_vars

-----------------------------------------------------------------------------
(* The tutor panel (GeminiTutor) and getTutorExplanation.  A call with the *)
(* key set awaits the service, which answers with a text, with an empty    *)
(* response or with an error, at any later time and in any order; a call   *)
(* without the key returns at once, and its continuation runs before any   *)
(* other event.  explanation keeps, beside the text, the number of the     *)
(* call that produced it and how that call ended.                          *)

Modes == {"MENU", "DESCENT", "ARCHITECT"}
ServiceOutcomes == {"text", "empty", "error"}

(* Variant: an empty response is returned as it is *)
TutorTextNoFallback(key, outcome) ==
    IF ~key THEN "API Key is missing. Please configure process.env.API_KEY."
    ELSE IF outcome = "error" THEN "Connection to AI Tutor disrupted. Try again."
    ELSE IF outcome = "empty" THEN ""
    ELSE "response.text"

(* What getTutorExplanation resolves with *)
TutorText(key, outcome) ==
    IF ~key THEN "API Key is missing. Please configure process.env.API_KEY."
    ELSE IF outcome = "error" THEN "Connection to AI Tutor disrupted. Try again."
    ELSE IF outcome = "empty" THEN "I'm analyzing the data stream..."
    ELSE "response.text"

TutorDone(open, mode, load, expl, pend, n, user) ==
    /\ userOps + user <= MaxTutorOps
    /\ userOps' = userOps + user
    /\ isOpen' = open
    /\ gameMode' = mode
    /\ loading' = load
    /\ explanation' = expl
    /\ pending' = pend
    /\ issued' = n
    /\ UNCHANGED <<layerDims, layerActivations, inputs, target, isPlaying, epochs,
                   epochRef, learningRate, simSpeed, isOptimized, lossHistory,
                   direction, activeLayer, networkRef, timer, animationFrame,
                   calls, turboFrames, interrupted, trace, appended, cycleRun,
                   apiKey>>
    /\ UNCHANGED cameraVars
    /\ UNCHANGED callVars

(* handleAskAI up to its await, and beyond it when the key is missing *)
AskAI(open, mode) ==
    IF apiKey
    THEN TutorDone(open, mode, TRUE, explanation, pending \cup {issued + 1},
                   issued + 1, 1)
    ELSE TutorDone(open, mode, FALSE,
                   [text |-> TutorText(apiKey, "text"), req |-> issued + 1,
                    outcome |-> "nokey"],
                   pending, issued + 1, 1)

(* The tutor button of the navigation bar, the close button of the panel *)
ToggleTutor ==
    IF ~isOpen THEN AskAI(TRUE, gameMode)
    ELSE TutorDone(FALSE, gameMode, loading, explanation, pending, issued, 1)

(* A game reports its context: the effect runs when the mode changes *)
UpdateContext ==
    \E mode \in Modes \ {gameMode} :
        IF isOpen THEN AskAI(isOpen, mode)
        ELSE TutorDone(isOpen, mode, loading, explanation, pending, issued, 1)

(* The Analysis Update button, disabled while loading *)
AnalysisUpdate ==
    /\ isOpen
    /\ ~loading
    /\ AskAI(isOpen, gameMode)

(* The service answers call req: handleAskAI continues after its await *)
Resolve ==
    \E req \in pending, outcome \in ServiceOutcomes :
        TutorDone(isOpen, gameMode, FALSE,
                  [text |-> TutorText(apiKey, outcome), req |-> req,
                   outcome |-> outcome],
                  pending \ {req}, issued, 0)

InitTutor ==
    /\ Mounted
    /\ call = NoCall
    /\ result = NoCall
    /\ apiKey \in BOOLEAN

NextTutor ==
    \/ ToggleTutor
    \/ UpdateContext
    \/ AnalysisUpdate
    \/ Resolve

SpecTutor == InitTutor /\ [][NextTutor]_vars

-----------------------------------------------------------------------------
(* The arithmetic of forward and train.  A number is a fraction [n, d] in  *)
(* lowest terms with d > 0, or one of the values that are not finite:      *)
(* NaN is [0, 0], Infinity [1, 0], -Infinity [-1, 0].  Sums and products   *)
(* are exact: the rounding and the overflow of floating point are left     *)
(* out, the values that are not finite come in with the arguments.         *)

Sign(n) == IF n > 0 THEN 1 ELSE IF n < 0 THEN -1 ELSE 0
Abs(n) == IF n < 0 THEN -n ELSE n

RECURSIVE GCD(_, _)
GCD(a, b) == IF b = 0 THEN a ELSE GCD(b, a % b)

Num(n, d) ==
    IF d = 0 THEN [n |-> Sign(n), d |-> 0]
    ELSE LET g == GCD(Abs(n), Abs(d))
         IN [n |-> Sign(d) * (n \div g), d |-> Abs(d) \div g]

Whole(i) == [n |-> i, d |-> 1]
NaN == [n |-> 0, d |-> 0]
Infinity == [n |-> 1, d |-> 0]

isFinite(x) == x.d # 0

Neg(x) == [n |-> -x.n, d |-> x.d]

(* Common factors are taken out before the products are formed *)
Plus(x, y) ==
    IF x.d = 0 /\ y.d = 0 THEN (IF x = y THEN x ELSE NaN)
    ELSE IF x.d = 0 THEN x
    ELSE IF y.d = 0 THEN y
    ELSE LET g == GCD(x.d, y.d)
         IN Num(x.n * (y.d \div g) + y.n * (x.d \div g), (x.d \div g) * y.d)

Minus(x, y) == Plus(x, Neg(y))

Times(x, y) ==
    IF x.d = 0 \/ y.d = 0 THEN Num(x.n * y.n, 0)
    ELSE LET g == GCD(Abs(x.n), y.d)
             h == GCD(Abs(y.n), x.d)
         IN Num((x.n \div g) * (y.n \div h), (x.d \div h) * (y.d \div g))

(* x < y; FALSE when one of them is NaN *)
Less(x, y) ==
    IF x = NaN \/ y = NaN THEN FALSE
    ELSE IF x.d = 0 \/ y.d = 0
    THEN \/ x = Neg(Infinity) /\ y # Neg(Infinity)
         \/ y = Infinity /\ x # Infinity
    ELSE Minus(x, y).n < 0

MathMin(x, y) ==
    IF x = NaN \/ y = NaN THEN NaN ELSE IF Less(y, x) THEN y ELSE x

MathMax(x, y) ==
    IF x = NaN \/ y = NaN THEN NaN ELSE IF Less(x, y) THEN y ELSE x

(* sum = 0; for each i: sum += f[i] *)
RECURSIVE SumTo(_, _)
SumTo(f, n) == IF n = 0 THEN Whole(0) ELSE Plus(SumTo(f, n - 1), f[n])

(* ACTIVATION_FUNCTIONS: the two of them that need no exponential *)
ActivationFunc(key, x) ==
    CASE key = "RELU" -> MathMax(Whole(0), x)
      [] key = "LEAKY_RELU" -> MathMax(Times(Num(1, 100), x), x)

ActivationDeriv(key, y) ==
    CASE key = "RELU" -> IF Less(Whole(0), y) THEN Whole(1) ELSE Num(5, 100)
      [] key = "LEAKY_RELU" -> IF Less(Whole(0), y) THEN Whole(1) ELSE Num(1, 100)

(* A network as the constructor leaves it, every weight w, every bias b *)
NumericNetwork(layerSizes, activations, w, b) ==
    [layerSizes |-> layerSizes,
     activations |-> activations,
     weights |-> [i \in 1..(Len(layerSizes) - 1) |->
                     [k \in 1..layerSizes[i] |-> Fill(layerSizes[i + 1], w)]],
     weightDeltas |-> [i \in 1..(Len(layerSizes) - 1) |->
                     [k \in 1..layerSizes[i] |-> Fill(layerSizes[i + 1], Whole(0))]],
     biases |-> [i \in 1..(Len(layerSizes) - 1) |-> Fill(layerSizes[i + 1], b)],
     values |-> [i \in 1..Len(layerSizes) |-> Fill(layerSizes[i], Whole(0))],
     preActivations |-> [i \in 1..Len(layerSizes) |-> Fill(layerSizes[i], Whole(0))]]

(* The pre-activations and the values of layer i + 1 from the values of    *)
(* layer i                                                                 *)
ForwardLayer(net, prevValues, i) ==
    LET pre == [j \in 1..net.layerSizes[i + 1] |->
                  LET sum == Plus(SumTo([k \in 1..Len(prevValues) |->
                                           Times(prevValues[k], net.weights[i][k][j])],
                                        Len(prevValues)),
                                  net.biases[i][j])
                  IN IF ~isFinite(sum) THEN Whole(0) ELSE sum]
    IN [preActivations |-> pre,
        values |-> [j \in 1..net.layerSizes[i + 1] |->
                      ActivationFunc(net.activations[i + 1], pre[j])]]

RECURSIVE ForwardFrom(_, _)
ForwardFrom(net, i) ==
    IF i > Len(net.weights) THEN net
    ELSE LET layer == ForwardLayer(net, net.values[i], i)
         IN ForwardFrom([net EXCEPT !.values[i + 1] = layer.values,
                                    !.preActivations[i + 1] = layer.preActivations],
                        i + 1)

forward(net, in) ==
    ForwardFrom([net EXCEPT !.values[1] = in, !.preActivations[1] = in], 1)

(* Math.max(-1, Math.min(1, learningRate * g)) *)
Clipped(rate, g) ==
    MathMax(Whole(-1), MathMin(Whole(1), Times(rate, g)))

(* One round of the backward loop of train: the weights and the biases of  *)
(* transition i (from layer i to layer i + 1, counted from 1) are updated, *)
(* then the errors of layer i are computed unless it is the input layer.   *)
BackwardLayer(s, i, rate) ==
    LET net == s.net
        nextLayerErrors == s.layerErrors[i + 1]
        currentValues == net.values[i]
        gradient(k, j) == Times(nextLayerErrors[j], currentValues[k])
        weights == [k \in 1..net.layerSizes[i] |->
                      [j \in 1..net.layerSizes[i + 1] |->
                          IF ~isFinite(gradient(k, j)) THEN net.weights[i][k][j]
                          ELSE Plus(net.weights[i][k][j],
                                    Clipped(rate, gradient(k, j)))]]
        weightDeltas == [k \in 1..net.layerSizes[i] |->
                      [j \in 1..net.layerSizes[i + 1] |->
                          IF ~isFinite(gradient(k, j)) THEN net.weightDeltas[i][k][j]
                          ELSE Clipped(rate, gradient(k, j))]]
        biases == [j \in 1..net.layerSizes[i + 1] |->
                      Plus(net.biases[i][j], Clipped(rate, nextLayerErrors[j]))]
        currentLayerErrors ==
            [k \in 1..net.layerSizes[i] |->
                LET sum == SumTo([j \in 1..net.layerSizes[i + 1] |->
                                    Times(nextLayerErrors[j], weights[k][j])],
                                 net.layerSizes[i + 1])
                IN Times(IF ~isFinite(sum) THEN Whole(0) ELSE sum,
                         ActivationDeriv(net.activations[i], currentValues[k]))]
    IN [net |-> [net EXCEPT !.weights[i] = weights,
                            !.weightDeltas[i] = weightDeltas,
                            !.biases[i] = biases],
        layerErrors |-> IF i > 1 THEN [s.layerErrors EXCEPT ![i] = currentLayerErrors]
                        ELSE s.layerErrors]

RECURSIVE BackwardFrom(_, _, _)
BackwardFrom(s, i, rate) ==
    IF i = 0 THEN s
    ELSE BackwardFrom(BackwardLayer(s, i, rate), i - 1, rate)

(* train, with the layerErrors it has computed when it returns *)
train(net, in, targets, rate) ==
    LET f == forward(net, in)
        outputLayerIdx == Len(f.layerSizes)
        outputs == f.values[outputLayerIdx]
        outputErrors ==
            [i \in 1..Len(outputs) |->
                Times(Minus(targets[i], outputs[i]),
                      ActivationDeriv(f.activations[outputLayerIdx], outputs[i]))]
        layerErrors == [i \in 1..outputLayerIdx |->
                           IF i = outputLayerIdx THEN outputErrors ELSE <<>>]
    IN BackwardFrom([net |-> f, layerErrors |-> layerErrors], Len(f.weights),
                    rate)

-----------------------------------------------------------------------------
(* Single calls of the functions of the program, on arguments drawn from   *)
(* bounded sets                                                            *)

RECURSIVE SeqsUpTo(_, _)
SeqsUpTo(S, n) ==
    IF n = 0 THEN {<<>>}
    ELSE LET shorter == SeqsUpTo(S, n - 1)
         IN shorter \cup {Append(q, x) : q \in {p \in shorter : Len(p) = n - 1}, x \in S}

SizeValues == {-1, 0, 1, 2}

ConstructorCalls ==
    {[op |-> "constructor", layerSizes |-> q, activations |-> Fill(Len(q), "SIGMOID")] :
        q \in SeqsUpTo(SizeValues, MaxCallLayers)}

(* Layer grids: the initial one with layers removed or added *)
RECURSIVE RemovedTimes(_, _)
RemovedTimes(d, k) ==
    IF k = 0 \/ Len(d) <= MinLayers THEN d
    ELSE RemovedTimes(Splice(d, Len(d) - 1), k - 1)

AddedDims(d) ==
    SubSeq(d, 1, Len(d) - 1) \o <<[rows |-> AddedExtent, cols |-> AddedExtent]>>
                             \o <<d[Len(d)]>>

RECURSIVE AddedTimes(_, _)
AddedTimes(d, k) ==
    IF k = 0 \/ Len(d) >= MaxLayers THEN d ELSE AddedTimes(AddedDims(d), k - 1)

Grids ==
    {RemovedTimes(InitialDims, k) : k \in 0..2}
        \cup {AddedTimes(InitialDims, k) : k \in 0..(MaxLayers - Len(InitialDims))}

(* Views: the default view, the view presets X, Y and Z, an orbit position; *)
(* orthographic or perspective; zoom and pan at rest and at the zoom limits *)
Views ==
    {[h |-> 50, v |-> 30], [h |-> 180, v |-> 0], [h |-> 0, v |-> 180],
     [h |-> 0, v |-> 0], [h |-> 74, v |-> -106]}

Cameras ==
    {[cameraAngle |-> a, viewScale |-> z[1], viewOffset |-> z[2], isOrtho |-> o] :
        a \in Views, o \in BOOLEAN,
        z \in {<<1000, [x |-> 0, y |-> 0]>>, <<50, [x |-> 30, y |-> -20]>>,
               <<5000, [x |-> 0, y |-> 0]>>}}

Project3DCallsOn(d) ==
    UNION {{[op |-> "project3D", dims |-> d, cam |-> c, layerIdx |-> l - 1,
             row |-> Cells(d[l])[k].r, col |-> Cells(d[l])[k].c] :
                k \in 1..Len(Cells(d[l])), c \in Cameras} :
           l \in 1..Len(d)}

Project3DCalls == UNION {Project3DCallsOn(d) : d \in Grids}

StatsOf(d) ==
    LET net == NewNetwork(LayerSizes(d), <<>>)
    IN [values |-> net.values, weights |-> net.weights]

RenderItemsCallsOn(d) ==
    {[op |-> "renderItems", dims |-> d, cam |-> c, stats |-> st] :
        c \in Cameras, st \in {NoStats, StatsOf(d), StatsOf(InitialDims)}}

RenderItemsCalls ==
    UNION {RenderItemsCallsOn(d) : d \in {g \in Grids : Len(g) <= MaxSceneLayers}}

(* The bias slider: -1 to 1, in tenths *)
BiasValues == {-10, 0, 5, 10}

(* Networks of the grids, new or trained *)
Networks ==
    {TrainedTimes(NewNetwork(LayerSizes(d), Fill(Len(d), "SIGMOID")), n,
                  Fill(LayerSizes(d)[1], 0), Fill(LayerSizes(d)[Len(d)], 0),
                  DefaultRate) :
        d \in {g \in Grids : Len(g) <= MaxCallLayers + 1}, n \in 0..1}

SetLayerBiasCallsOn(net) ==
    {[op |-> "setLayerBias", net |-> net, layerIdx |-> l, value |-> v] :
        l \in -1..(Len(net.layerSizes) + 1), v \in BiasValues}

SetLayerBiasCalls == UNION {SetLayerBiasCallsOn(net) : net \in Networks}

(* Calls of train: small networks of the two activations, every weight    *)
(* and every bias of a network alike, within what the constructor draws;   *)
(* vectors of the sizes of the input and the output layer; entries and     *)
(* learning rates finite or not.                                           *)
TrainSizes == {<<1, 1>>, <<2, 1>>, <<1, 1, 1>>, <<1, 2, 1>>}

(* LEAKY_RELU only where no hidden layer multiplies its hundredths *)
TrainNetworks ==
    {NumericNetwork(sizes, Fill(Len(sizes), key), w, Num(1, 10)) :
        sizes \in TrainSizes, key \in {"RELU", "LEAKY_RELU"},
        w \in {Num(1, 2), Whole(-1)}}
      \ {NumericNetwork(sizes, Fill(Len(sizes), "LEAKY_RELU"), w, Num(1, 10)) :
            sizes \in {q \in TrainSizes : Len(q) > 2}, w \in {Num(1, 2), Whole(-1)}}

RECURSIVE VectorsOf(_, _)
VectorsOf(S, n) ==
    IF n = 0 THEN {<<>>} ELSE {Append(q, x) : q \in VectorsOf(S, n - 1), x \in S}

TrainCallsOn(net) ==
    {[op |-> "train", net |-> net, inputs |-> in, targets |-> tg, learningRate |-> lr] :
        in \in VectorsOf({Whole(0), Whole(2), Infinity}, net.layerSizes[1]),
        tg \in VectorsOf({Whole(0), Whole(3), NaN}, net.layerSizes[Len(net.layerSizes)]),
        lr \in {Num(1, 10), Whole(1), NaN}}

TrainCalls == UNION {TrainCallsOn(net) : net \in TrainNetworks}

Calls ==
    ConstructorCalls \cup Project3DCalls \cup RenderItemsCalls \cup SetLayerBiasCalls
        \cup TrainCalls

CallConstructor ==
    /\ call.op = "constructor"
    /\ result = NoCall
    /\ result' = Construct(call.layerSizes, call.activations)
    /\ UNCHANGED <<layerDims, layerActivations, inputs, target, isPlaying, epochs,
                   epochRef, learningRate, simSpeed, isOptimized, lossHistory,
                   direction, activeLayer, networkRef, timer, animationFrame,
                   calls, userOps, turboFrames, interrupted, trace, appended,
                   cycleRun, call>>
    /\ UNCHANGED cameraVars
    /\ UNCHANGED tutorVars

CallProject3D ==
    /\ call.op = "project3D"
    /\ result = NoCall
    /\ result' = [op |-> "project3D",
                  pos |-> project3D(call.dims, call.cam, call.layerIdx, call.row,
                                    call.col)]
    /\ UNCHANGED <<layerDims, layerActivations, inputs, target, isPlaying, epochs,
                   epochRef, learningRate, simSpeed, isOptimized, lossHistory,
                   direction, activeLayer, networkRef, timer, animationFrame,
                   calls, userOps, turboFrames, interrupted, trace, appended,
                   cycleRun, call>>
    /\ UNCHANGED cameraVars
    /\ UNCHANGED tutorVars

CallRenderItems ==
    /\ call.op = "renderItems"
    /\ result = NoCall
    /\ result' = [op |-> "renderItems",
                  items |-> renderItems(call.dims, call.cam, call.stats)]
    /\ UNCHANGED <<layerDims, layerActivations, inputs, target, isPlaying, epochs,
                   epochRef, learningRate, simSpeed, isOptimized, lossHistory,
                   direction, activeLayer, networkRef, timer, animationFrame,
                   calls, userOps, turboFrames, interrupted, trace, appended,
                   cycleRun, call>>
    /\ UNCHANGED cameraVars
    /\ UNCHANGED tutorVars

CallSetLayerBias ==
    /\ call.op = "setLayerBias"
    /\ result = NoCall
    /\ result' = [op |-> "setLayerBias",
                  net |-> setLayerBias(call.net, call.layerIdx, call.value)]
    /\ UNCHANGED <<layerDims, layerActivations, inputs, target, isPlaying, epochs,
                   epochRef, learningRate, simSpeed, isOptimized, lossHistory,
                   direction, activeLayer, networkRef, timer, animationFrame,
                   calls, userOps, turboFrames, interrupted, trace, appended,
                   cycleRun, call>>
    /\ UNCHANGED cameraVars
    /\ UNCHANGED tutorVars

CallNumericTrain ==
    /\ call.op = "train"
    /\ result = NoCall
    /\ result' = [op |-> "train"] @@ train(call.net, call.inputs, call.targets,
                                           call.learningRate)
    /\ UNCHANGED <<layerDims, layerActivations, inputs, target, isPlaying, epochs,
                   epochRef, learningRate, simSpeed, isOptimized, lossHistory,
                   direction, activeLayer, networkRef, timer, animationFrame,
                   calls, userOps, turboFrames, interrupted, trace, appended,
                   cycleRun, call>>
    /\ UNCHANGED cameraVars
    /\ UNCHANGED tutorVars

InitCall ==
    /\ Mounted
    /\ call \in Calls
    /\ result = NoCall
    /\ apiKey = TRUE

NextCall ==
    \/ CallConstructor
    \/ CallProject3D
    \/ CallRenderItems
    \/ CallSetLayerBias
    \/ CallNumericTrain

SpecCall == InitCall /\ [][NextCall]_vars

-----------------------------------------------------------------------------
(* Properties, continued *)

(* C11: every extent of the layer grid is in 1..8 and the grid has 2..10   *)
(* layers; the network in use has at least 2 layers and no layer of size   *)
(* below 1.                                                                *)
C11_GridWithinLimits ==
    /\ Len(layerDims) >= 2
    /\ Len(layerDims) <= 10
    /\ \A i \in 1..Len(layerDims) :
          /\ layerDims[i].rows >= 1 /\ layerDims[i].rows <= 8
          /\ layerDims[i].cols >= 1 /\ layerDims[i].cols <= 8
    /\ Len(networkRef.layerSizes) >= 2
    /\ \A i \in 1..Len(networkRef.layerSizes) : networkRef.layerSizes[i] >= 1

(* Ten layers, and one more edit that the limits turned into no change *)
C11_LimitReached ==
    /\ Len(layerDims) = 10
    /\ userOps = 7
    /\ interrupted = "none"

(* C12: a constructor call with fewer than 2 layers, or with a layer size  *)
(* below 1, fails with a ConfigError and yields no network.                *)
C12_InvalidRejected ==
    (/\ call.op = "constructor"
     /\ result # NoCall
     /\ \/ Len(call.layerSizes) < 2
        \/ \E i \in 1..Len(call.layerSizes) : call.layerSizes[i] < 1)
        => result = [error |-> "ConfigError"]

(* C13: the loss history never holds more than 200 entries; a step that    *)
(* appends an entry (stepped or turbo) to a history of 200 entries drops   *)
(* the oldest one and keeps the others in order with the new entry last,   *)
(* and to a shorter history just appends it.                               *)
C13_HistoryRing ==
    [][/\ Len(lossHistory') <= 200
       /\ appended' = appended + 1 =>
             /\ Last(lossHistory').epoch = epochRef'
             /\ IF Len(lossHistory) = 200
                THEN lossHistory' = Append(Tail(lossHistory), Last(lossHistory'))
                ELSE lossHistory' = Append(lossHistory, Last(lossHistory'))]_vars

C13_OldestDropped ==
    /\ appended = 201
    /\ Len(lossHistory) = 200
    /\ lossHistory[1].epoch = 2
    /\ lossHistory[200].epoch = 201

(* Exact comparison of fractions [num, den] without forming products:      *)
(* a zero denominator is Infinity, a negative one is moved to the          *)
(* numerator, and two non-negative fractions are compared by their integer *)
(* parts and then, reversed, by the inverses of their fractional parts.    *)
RECURSIVE PosLess(_, _, _, _)
PosLess(n1, d1, n2, d2) ==
    IF n1 \div d1 # n2 \div d2 THEN n1 \div d1 < n2 \div d2
    ELSE IF n2 % d2 = 0 THEN FALSE
    ELSE IF n1 % d1 = 0 THEN TRUE
    ELSE PosLess(d2, n2 % d2, d1, n1 % d1)

Normal(a) == IF a.den < 0 THEN [num |-> -a.num, den |-> -a.den] ELSE a

FracLess(x, y) ==
    LET a == Normal(x)
        b == Normal(y)
    IN IF a.den = 0 THEN FALSE
       ELSE IF b.den = 0 THEN TRUE
       ELSE IF a.num < 0 /\ b.num >= 0 THEN TRUE
       ELSE IF a.num >= 0 /\ b.num < 0 THEN FALSE
       ELSE IF a.num >= 0 THEN PosLess(a.num, a.den, b.num, b.den)
       ELSE PosLess(-b.num, b.den, -a.num, a.den)

IsSorted(items) ==
    \A i \in 1..(Len(items) - 1) : items[i].depth <= items[i + 1].depth

(* C14: the render list is sorted non-decreasing by depth *)
C14_RenderListSorted ==
    (call.op = "renderItems" /\ result # NoCall) => IsSorted(result.items)

(* Ten items or more, not all of one depth, in a view that is not a preset *)
C14_SceneSorted ==
    /\ call.op = "renderItems"
    /\ result # NoCall
    /\ call.cam.cameraAngle = [h |-> 74, v |-> -106]
    /\ Len(call.dims) = 5
    /\ Len(result.items) >= 10
    /\ result.items[1].depth < result.items[Len(result.items)].depth
    /\ \E i \in 1..Len(result.items) : result.items[i].type = "LINK"

(* The camera at rest in the front view: yaw 0, pitch 0, zoom 1, no pan,   *)
(* orthographic                                                            *)
AtRest ==
    [cameraAngle |-> [h |-> 0, v |-> 0], viewScale |-> DefaultScale,
     viewOffset |-> [x |-> 0, y |-> 0], isOrtho |-> TRUE]

FirstUnitAtRest ==
    /\ call.op = "project3D"
    /\ result # NoCall
    /\ call.cam = AtRest
    /\ call.layerIdx = 0 /\ call.row = 0 /\ call.col = 0

(* C15 as stated: with yaw 0, pitch 0, zoom 1, no pan and orthographic     *)
(* mode the unit (layer 0, row 0, col 0) is projected to (400, 300).       *)
C15_FirstUnitAtOrigin ==
    FirstUnitAtRest =>
        /\ result.pos.x.base = [num |-> 1, den |-> 1]
        /\ result.pos.x.fixed + result.pos.x.moved = OriginX * DepthScale * 1000
        /\ result.pos.y.fixed + result.pos.y.moved = OriginY * DepthScale * 1000

(* C15 amended: with that camera the unit (layer 0, row 0, col 0) is       *)
(* projected to (400 - 125 * (layers - 1), 300 - 40 * (rows of layer 0     *)
(* - 1)): the centre of the network is what lies at (400, 300).            *)
C15_FirstUnitLeftOfCentre ==
    FirstUnitAtRest =>
        /\ result.pos.x.base = [num |-> 1, den |-> 1]
        /\ result.pos.x.fixed + result.pos.x.moved
              = (400 - 125 * (Len(call.dims) - 1)) * DepthScale * 1000
        /\ result.pos.y.fixed + result.pos.y.moved
              = (300 - 40 * (call.dims[1].rows - 1)) * DepthScale * 1000

C15_FirstUnitProjected == FirstUnitAtRest /\ Len(call.dims) = MaxLayers

(* C16: in perspective mode, of two units of one grid under one camera the *)
(* one of greater depth has the strictly larger scale factor.              *)
C16_NearerIsLarger ==
    (call.op = "project3D" /\ result # NoCall /\ ~call.cam.isOrtho) =>
        \A l \in 1..Len(call.dims) : \A k \in 1..Len(Cells(call.dims[l])) :
            LET other == project3D(call.dims, call.cam, l - 1,
                                   Cells(call.dims[l])[k].r, Cells(call.dims[l])[k].c)
            IN other.depth > result.pos.depth =>
                  FracLess(result.pos.scale, other.scale)

(* The fixed order of the activation functions, wrapping *)
Following(a) ==
    CASE a = "SIGMOID" -> "TANH"
      [] a = "TANH" -> "RELU"
      [] a = "RELU" -> "LEAKY_RELU"
      [] a = "LEAKY_RELU" -> "ELU"
      [] a = "ELU" -> "SIGMOID"

(* C17: an activation edit replaces the activation of the edited layer by  *)
(* the following one of the fixed order and leaves the other activations,  *)
(* the weights, the biases, the epoch counter and the loss history as they *)
(* are; the fifth edit in a row of one layer restores the assignment.      *)
C17_ActivationEdit ==
    [][cycleRun' # cycleRun =>
          /\ layerActivations' =
                [layerActivations EXCEPT ![cycleRun'.layer] = Following(@)]
          /\ networkRef'.weights = networkRef.weights
          /\ networkRef'.biases = networkRef.biases
          /\ epochs' = epochs
          /\ epochRef' = epochRef
          /\ lossHistory' = lossHistory
          /\ (cycleRun'.n % 5 = 0 => layerActivations' = cycleRun'.start)]_vars

(* Five edits of one hidden layer of a trained network, training running *)
C17_FiveEditsWhileTraining ==
    /\ cycleRun.n = 5
    /\ layerActivations = cycleRun.start
    /\ epochs > 0
    /\ isPlaying
    /\ networkRef.weights # NewNetwork(networkRef.layerSizes, <<>>).weights

(* C18: the activation assignment of the network is the assignment the     *)
(* activation controls show.                                               *)
C18_NetworkUsesSelected == networkRef.activations = layerActivations

(* C19: setLayerBias(layerIdx, v) makes every bias of layer layerIdx v and *)
(* leaves the biases of the other layers, the weights and the weight       *)
(* deltas as they are; for layer 0 and for an index that is no layer of    *)
(* the network it changes nothing.                                         *)
C19_BiasBroadcast ==
    (call.op = "setLayerBias" /\ result # NoCall) =>
        LET before == call.net
            after == result.net
            layers == Len(before.layerSizes)
        IN /\ after.weights = before.weights
           /\ after.weightDeltas = before.weightDeltas
           /\ Len(after.biases) = Len(before.biases)
           /\ \A layer \in 1..(layers - 1) :
                 after.biases[layer] =
                    IF layer = call.layerIdx
                    THEN [j \in 1..before.layerSizes[layer + 1] |-> call.value]
                    ELSE before.biases[layer]
           /\ (call.layerIdx = 0 \/ call.layerIdx \notin 0..(layers - 1))
                 => after = before

(* The biases of a hidden layer of a trained network were set *)
C19_HiddenLayerSet ==
    /\ call.op = "setLayerBias"
    /\ result # NoCall
    /\ call.layerIdx = 1
    /\ Len(call.net.layerSizes) = 4
    /\ call.net.biases[1] = <<1, 1, 1, 1>>
    /\ result.net.biases = <<<<5, 5, 5, 5>>, <<1, 1, 1>>, <<1>>>>

(* C20: the pitch stays within -90 and 90 degrees and the zoom within 0.05 *)
(* and 5, whatever the camera operations.                                  *)
C20_CameraWithinLimits ==
    /\ cameraAngle.v >= -180 /\ cameraAngle.v <= 180
    /\ viewScale >= 50 /\ viewScale <= 5000

(* A drag beyond the lowest pitch and a wheel turn beyond the largest zoom *)
C20_DraggedAndZoomedPastLimits ==
    /\ cameraAngle.v = -180
    /\ cameraAngle.h # DefaultAngle.h
    /\ viewScale = 5000
    /\ isDraggingCanvasRef

(* C21: the reset of the camera returns every camera field to its default: *)
(* yaw 25, pitch 15, zoom 1, no pan, perspective.                          *)
C21_ResetRestoresDefaults ==
    [][GizmoReset =>
          /\ cameraAngle' = [h |-> 50, v |-> 30]
          /\ viewScale' = 1000
          /\ viewOffset' = [x |-> 0, y |-> 0]
          /\ ~isOrtho']_vars

AllFinite(net) ==
    /\ \A i \in DOMAIN net.weights : \A k \in DOMAIN net.weights[i] :
          \A j \in DOMAIN net.weights[i][k] : net.weights[i][k][j].d # 0
    /\ \A i \in DOMAIN net.biases : \A j \in DOMAIN net.biases[i] :
          net.biases[i][j].d # 0

(* C22: train writes no value that is not finite into a weight or a bias *)
C22_ParametersStayFinite ==
    (call.op = "train" /\ result # NoCall) => AllFinite(result.net)

Within(x) == x # NaN /\ ~Less(x, Whole(-1)) /\ ~Less(Whole(1), x)

(* C23: one call of train changes each weight and each bias by an amount   *)
(* between -1 and 1.                                                       *)
C23_UpdatesClipped ==
    (call.op = "train" /\ result # NoCall) =>
        /\ \A i \in DOMAIN call.net.weights : \A k \in DOMAIN call.net.weights[i] :
              \A j \in DOMAIN call.net.weights[i][k] :
                 Within(Minus(result.net.weights[i][k][j], call.net.weights[i][k][j]))
        /\ \A i \in DOMAIN call.net.biases : \A j \in DOMAIN call.net.biases[i] :
              Within(Minus(result.net.biases[i][j], call.net.biases[i][j]))

FiniteVector(v) == \A i \in DOMAIN v : v[i].d # 0

FiniteArguments ==
    /\ call.op = "train"
    /\ FiniteVector(call.inputs)
    /\ FiniteVector(call.targets)
    /\ call.learningRate.d # 0

(* C26: the error of a unit of a hidden layer is the sum of the errors of  *)
(* the next layer, each times the weight from the unit as it was when the  *)
(* call began, times the derivative at the value of the unit (here for     *)
(* finite arguments).                                                      *)
C26_ErrorsFromForwardWeights ==
    (FiniteArguments /\ result # NoCall) =>
        \A i \in 2..(Len(call.net.layerSizes) - 1) :
            \A k \in 1..call.net.layerSizes[i] :
                result.layerErrors[i][k] =
                    Times(SumTo([j \in 1..call.net.layerSizes[i + 1] |->
                                    Times(result.layerErrors[i + 1][j],
                                          call.net.weights[i][k][j])],
                                call.net.layerSizes[i + 1]),
                          ActivationDeriv(call.net.activations[i],
                                          result.net.values[i][k]))

Fallbacks ==
    {"API Key is missing. Please configure process.env.API_KEY.",
     "Connection to AI Tutor disrupted. Try again.",
     "I'm analyzing the data stream..."}

(* C24: a tutoring call ends with a text that is not empty, a static       *)
(* fallback text when the key is missing, the service failed or the        *)
(* response was empty; a call is issued only in a step of the user (panel  *)
(* open, mode change, button), one at a time, never when a call ends.      *)
C24_TutorNeverFails ==
    [][/\ explanation' # explanation =>
             /\ explanation'.text # ""
             /\ explanation'.outcome \in {"nokey", "error", "empty"}
                   => explanation'.text \in Fallbacks
             /\ explanation'.outcome = "text" => explanation'.text \notin Fallbacks
       /\ issued' # issued => issued' = issued + 1 /\ userOps' = userOps + 1
       /\ pending' \subseteq pending /\ pending' # pending => issued' = issued]_vars

(* A call failed, the fallback text is shown, and nothing is pending *)
C24_FailedAndNotRetried ==
    /\ explanation.outcome = "error"
    /\ explanation.text = "Connection to AI Tutor disrupted. Try again."
    /\ pending = {}
    /\ ~loading
    /\ issued = 1

(* C30: once no tutoring call is pending the explanation shown is that of  *)
(* the call issued last, and the loading indicator is on while a call is   *)
(* pending.                                                                *)
C30_LatestResponseShown ==
    /\ pending = {} => explanation.req = issued
    /\ pending # {} => loading

(* C25: a step in which the reset handler ran leaves a fresh network of   *)
(* the current grid and the current activation selection, epoch counters   *)
(* at 0, an empty loss history, the scheduler stopped, the optimized flag  *)
(* cleared, phase NONE and active layer -1, and does not change the layer  *)
(* grid, the activation selection, the inputs, the targets, the learning   *)
(* rate or the camera.                                                     *)
ResetRan == \E i \in DOMAIN calls : calls[i].by = "handler"

C25_ResetSimulation ==
    [][ResetRan' =>
          /\ networkRef'.layerSizes = GridSizes(layerDims)
          /\ networkRef'.activations = layerActivations
          /\ Untrained(networkRef')
          /\ epochs' = 0
          /\ epochRef' = 0
          /\ lossHistory' = <<>>
          /\ ~isPlaying'
          /\ ~isOptimized'
          /\ direction' = "NONE"
          /\ activeLayer' = -1
          /\ UNCHANGED <<layerDims, layerActivations, inputs, target, learningRate,
                         cameraAngle, viewScale, viewOffset, isOrtho>>]_vars

C25_ResetAfterEdit ==
    /\ ResetRan
    /\ epochs = 0
    /\ userOps >= 2
    /\ layerActivations # InitialActivations

C28_OptimizedNotPlaying == isOptimized => ~isPlaying

(* C29: every step in which the scheduler halts on convergence, the step  *)
(* that sets the optimized flag, in stepped or in turbo mode, ends with    *)
(* phase NONE and active layer -1.                                         *)
C29_ConvergedAtRest ==
    [][(~isOptimized /\ isOptimized') =>
          (~isPlaying' /\ direction' = "NONE" /\ activeLayer' = -1)]_vars

====
